---- MODULE Spec2Model ----
(***************************************************************************)
(* Model of ClickUpClient._make_request                                    *)
(* (Scripts/clickup_sync/src/clickup_client.py): one logical HTTP call     *)
(* with retry, rate-limit handling and exponential backoff.                *)
(***************************************************************************)
EXTENDS Integers, Sequences, FiniteSets, TLC

(* ---------- bounds of the model ---------- *)

\* largest max_retries a client is constructed with
MaxRetriesBound == 3
\* largest retry_delay (whole seconds) a client is constructed with
MaxRetryDelay == 2
\* random.uniform(0, 1) is modelled in steps of 1/JitterDen second
JitterDen == 2

(* ---------- program constants ---------- *)

\* headers.get('Retry-After', 60)
DefaultRetryAfter == 60
\* status_code: Optional[int] = None
NoStatus == 0

(* ---------- values ---------- *)

\* Python's None, where a decoded body is expected
None == [none |-> TRUE]
\* the local error_data before its first assignment
Unbound == [unbound |-> TRUE]

\* raw response bodies (text on the wire)
BodyId   == "{\"id\": \"123\"}"
BodyId2  == "{\"id\": \"456\"}"
BodyOk   == "{\"ok\": true}"
BodyErr  == "{\"err\": \"boom\"}"
BodyBusy == "{\"err\": \"busy\"}"
BodyHtml == "<html>Bad Gateway</html>"
RawBodies == {BodyId, BodyId2, BodyOk, BodyErr, BodyBusy, BodyHtml}

\* response.json(): the decoded mapping, or a decode error
IsJson(raw) == raw \in {BodyId, BodyId2, BodyOk, BodyErr, BodyBusy}
JsonLoads(raw) ==
    CASE raw = BodyId  -> [id |-> "123"]
      [] raw = BodyId2 -> [id |-> "456"]
      [] raw = BodyOk  -> [ok |-> "true"]
      [] raw = BodyErr -> [err |-> "boom"]
      [] raw = BodyBusy -> [err |-> "busy"]

\* dict.get(key, default)
DictGet(d, key, default) == IF key \in DOMAIN d THEN d[key] ELSE default

\* Retry-After header values; NoHeader stands for a response without it
NoHeader == "<absent>"
HttpDate == "Wed, 21 Oct 2015 07:28:00 GMT"
RetryAfterHeaders == {NoHeader, "2", "-1", HttpDate}

\* int(str): defined on integer literals, ValueError otherwise
IsIntLiteral(s) == s \in {"0", "2", "-1"}
IntOf(s) == CASE s = "0" -> 0 [] s = "2" -> 2 [] s = "-1" -> 0 - 1

\* what one requests.request(...) call gives back
Exceptions == {"ConnectionError", "Timeout", "TooManyRedirects"}
Response(st, body, ra) ==
    [kind |-> "response", status |-> st, body |-> body, retry_after |-> ra]
Raised(exc) ==
    [kind |-> exc, status |-> NoStatus, body |-> "", retry_after |-> NoHeader]
TransportResults ==
    {Raised(e) : e \in Exceptions}
    \cup {Response(200, b, NoHeader) : b \in {BodyId, BodyId2, BodyOk, BodyHtml}}
    \cup {Response(300, b, NoHeader) : b \in {BodyId, BodyHtml}}
    \cup {Response(404, b, NoHeader) : b \in {BodyErr, BodyHtml}}
    \cup {Response(500, b, NoHeader) : b \in {BodyErr, BodyHtml}}
    \cup {Response(503, b, NoHeader) : b \in {BodyBusy, BodyHtml}}
    \cup {Response(429, BodyBusy, ra) : ra \in RetryAfterHeaders}

(* ---------- state ---------- *)

VARIABLES
    max_retries,   \* self.max_retries
    retry_delay,   \* self.retry_delay
    pc,            \* "idle", "while", "done"
    retry_count,   \* local retry_count
    error_data,    \* local error_data (Unbound until first assigned)
    results,       \* transport results so far, one per HTTP request issued
    sleeps,        \* time.sleep calls so far, without the jitter
    jitter,        \* last value of random.uniform(0, 1), in 1/JitterDen s
    outcome        \* how the call ended

\* state of the callers of _make_request; one call alone leaves it untouched
VARIABLES
    calls,         \* the calls of _make_request that ended before the current one
    headers,       \* self.headers
    th,            \* per thread: the frame of its call of _make_request
    t_count,       \* per thread: the local retry_count of its call
    tasks,         \* main: the task structure, a tree of index paths
    hpc,           \* main: "idle", "next" (before a create), "calling", "finished"
    cur,           \* main: the node whose create comes next or is running
    nodes,         \* per node: its create calls, their result, the parent id sent
    hresult        \* per top-level task: how create_task_hierarchy ended

\* state of the API application (xtraqtivCore/api.py)
VARIABLES
    keyring_token,       \* keyring password of (SERVICE_NAME, USER_ID), or None
    temp_oauth_storage,  \* temp_oauth_storage: oauth_token -> stored verifier
    evernote_calls,      \* calls made to Evernote so far
    api_log,             \* requests handled so far, each with its response
    files,               \* the export directory: file name -> content
    export_pc,           \* perform_actual_export: "idle" or "notes" (in its loop)
    export_format,       \* perform_actual_export: local export_format
    export_notes,        \* perform_actual_export: the notes still to process
    notes_exported_count \* perform_actual_export: local notes_exported_count

export_state == <<export_pc, export_format, export_notes, notes_exported_count>>

api == <<keyring_token, temp_oauth_storage, evernote_calls, api_log, files,
         export_state>>

\* state of one call of set_custom_field_value
VARIABLES
    cf_pc,           \* "idle", "get_task", "get_custom_fields", "update", "done"
    cf_args,         \* the arguments task_id, field_name, value
    cf_requests,     \* the requests the call issued so far
    cf_task_data,    \* local task_data (Unbound until get_task returned)
    cf_fields_data,  \* local fields_data (Unbound until get_custom_fields returned)
    cf_outcome       \* how the call ended

cfv == <<cf_pc, cf_args, cf_requests, cf_task_data, cf_fields_data, cf_outcome>>

ext == <<calls, headers, th, t_count, tasks, hpc, cur, nodes, hresult, api, cfv>>

vars == <<max_retries, retry_delay, pc, retry_count, error_data,
          results, sleeps, jitter, outcome, ext>>

NoOutcome == [kind |-> "none", value |-> None, message |-> "",
              detail |-> "", status |-> NoStatus, response |-> None]
\* return <value>
Return(v) == [kind |-> "return", value |-> v, message |-> "",
              detail |-> "", status |-> NoStatus, response |-> None]
\* raise ClickUpAPIError(message, status_code, response)
ClickUpAPIError(msg, detail, st, resp) ==
    [kind |-> "raise", value |-> None, message |-> msg,
     detail |-> detail, status |-> st, response |-> resp]

\* the four message texts of _make_request
MsgConnection == "Connection error after"
MsgHttp       == "HTTP Error"
MsgUnexpected == "Unexpected error"
MsgExhausted  == "Request failed after"

\* a time.sleep call: its length without the jitter; a backoff sleep lasts
\* jitter/JitterDen seconds longer, jitter being the value drawn for it
Sleep(kind, seconds) == [kind |-> kind, fixed |-> seconds]
\* random.uniform(0, 1): the extremes of [0, 1) at the model's resolution
Jitters == {0, JitterDen - 1}

\* the threads that call _make_request on the one client
Threads == {"t1", "t2"}

\* the frame of a thread that has not called yet
IdleFrame == [pc |-> "idle", error_data |-> Unbound, requests |-> 0,
              slept |-> 0, outcome |-> NoOutcome]

(* ---------- construction ---------- *)

\* nothing has called _make_request yet
ExtInit ==
    /\ calls = <<>>
    /\ headers = [Authorization |-> "api_token", ContentType |-> "application/json"]
    /\ th = [t \in Threads |-> IdleFrame]
    /\ t_count = [t \in Threads |-> 0]

\* main has not started: no task structure is loaded
HierIdle ==
    /\ tasks = {}
    /\ hpc = "idle"
    /\ cur = <<>>
    /\ nodes = <<>>
    /\ hresult = <<>>

\* the API application right after import: no verifier stored, nothing handled
ApiStart ==
    /\ temp_oauth_storage = [k \in {} |-> ""]
    /\ evernote_calls = <<>>
    /\ api_log = <<>>
    /\ export_pc = "idle"
    /\ export_format = ""
    /\ export_notes = <<>>
    /\ notes_exported_count = 0

\* an empty export directory
NoFiles == [f \in {} |-> ""]

\* set_custom_field_value has not been called
CfIdle ==
    /\ cf_pc = "idle"
    /\ cf_args = <<>>
    /\ cf_requests = <<>>
    /\ cf_task_data = Unbound
    /\ cf_fields_data = Unbound
    /\ cf_outcome = NoOutcome

\* the synchronisation script never touches the keyring or the application
ApiIdle ==
    /\ keyring_token = None
    /\ files = NoFiles
    /\ ApiStart

Init ==
    /\ max_retries \in (0 - 1) .. MaxRetriesBound
    /\ retry_delay \in 1 .. MaxRetryDelay
    /\ pc = "idle"
    /\ retry_count = 0
    /\ error_data = Unbound
    /\ results = <<>>
    /\ sleeps = <<>>
    /\ jitter = 0
    /\ outcome = NoOutcome
    /\ ExtInit
    /\ HierIdle
    /\ ApiIdle
    /\ CfIdle

(* ---------- _make_request ---------- *)

\* mutant: the loop test lets one attempt too many through
LoopCond_OneMore(count, max) == count <= max + 1
\* while retry_count <= self.max_retries
LoopCond(count, max) == count <= max

\* mutant: gives up one attempt early
Exceeded_OneEarly(count, max) == count >= max
\* mutant: never gives up inside the handler, the loop test ends the call
Exceeded_OneLate(count, max) == count > max + 1
\* retries are used up after the increment
Exceeded(count, max) == count > max

\* mutant: exponent retry_count instead of retry_count - 1
BackoffFixed_NoMinusOne(delay, count) == delay * 2 ^ count
\* self.retry_delay * (2 ** (retry_count - 1))
BackoffFixed(delay, count) == delay * 2 ^ (count - 1)

\* mutant: every HTTP error is retried
IsServerError_From400(st) == 400 <= st /\ st < 600
\* 500 <= response.status_code < 600
IsServerError(st) == 500 <= st /\ st < 600

\* response.raise_for_status() raises HTTPError
RaisesForStatus(st) == 400 <= st /\ st < 600

\* error_data if 'error_data' in locals() else None
ErrorDataOrNone(ed) == IF ed = Unbound THEN None ELSE ed

InLoop == pc = "while" /\ LoopCond(retry_count, max_retries)

\* entry of the call
MakeRequest ==
    /\ pc = "idle"
    /\ pc' = "while"
    /\ retry_count' = 0
    /\ error_data' = Unbound
    /\ UNCHANGED <<max_retries, retry_delay, results, sleeps, jitter, outcome>>
    /\ UNCHANGED ext

Finish(o) ==
    /\ pc' = "done"
    /\ outcome' = o

\* mutant: the header is ignored
RetryAfter_IgnoresHeader(r) == DefaultRetryAfter
\* int(response.headers.get('Retry-After', 60))
RetryAfter(r) ==
    IF r.retry_after = NoHeader THEN DefaultRetryAfter ELSE IntOf(r.retry_after)

\* except Exception as e: raise ClickUpAPIError(f"Unexpected error: {str(e)}")
Unexpected(exc) == ClickUpAPIError(MsgUnexpected, exc, NoStatus, None)

\* f": {error_data.get('err', '')}" after a successful decode, "" otherwise
ErrorDetail(raw) == IF IsJson(raw) THEN DictGet(JsonLoads(raw), "err", "") ELSE ""

\* error_data = response.json() inside try/except: kept when the decode fails
ErrorDataAfter(ed, raw) == IF IsJson(raw) THEN JsonLoads(raw) ELSE ed

\* mutant: returns response.text instead of response.json()
JsonOutcome_RawText(raw) ==
    IF IsJson(raw) THEN Return([text |-> raw]) ELSE Unexpected("JSONDecodeError")
\* mutant: a decode error is swallowed and an empty mapping returned
JsonOutcome_EmptyOnDecodeError(raw) ==
    IF IsJson(raw) THEN Return(JsonLoads(raw)) ELSE Return([empty |-> TRUE])
\* return response.json(); a decode error reaches "except Exception"
JsonOutcome(raw) ==
    IF IsJson(raw) THEN Return(JsonLoads(raw)) ELSE Unexpected("JSONDecodeError")

\* status 429: sleep Retry-After seconds, count the attempt, continue
RateLimited ==
    /\ InLoop
    /\ \E r \in TransportResults :
        /\ r.kind = "response"
        /\ r.status = 429
        /\ results' = Append(results, r)
        /\ IF r.retry_after # NoHeader /\ ~IsIntLiteral(r.retry_after)
           THEN \* int() raises ValueError inside the try block
                /\ Finish(Unexpected("ValueError"))
                /\ UNCHANGED <<retry_count, sleeps>>
           ELSE IF RetryAfter(r) < 0
           THEN \* time.sleep() raises ValueError inside the try block
                /\ Finish(Unexpected("ValueError"))
                /\ UNCHANGED <<retry_count, sleeps>>
           ELSE /\ sleeps' = Append(sleeps, Sleep("rate_limit", RetryAfter(r)))
                /\ retry_count' = retry_count + 1
                /\ UNCHANGED <<pc, outcome>>
    /\ UNCHANGED <<max_retries, retry_delay, error_data, jitter>>
    /\ UNCHANGED ext

\* raise_for_status() passes: return response.json()
Success ==
    /\ InLoop
    /\ \E r \in TransportResults :
        /\ r.kind = "response"
        /\ r.status # 429
        /\ ~RaisesForStatus(r.status)
        /\ results' = Append(results, r)
        /\ Finish(JsonOutcome(r.body))
    /\ UNCHANGED <<max_retries, retry_delay, retry_count, error_data, sleeps, jitter>>
    /\ UNCHANGED ext

\* except (ConnectionError, Timeout)
ConnectionFailure ==
    /\ InLoop
    /\ \E r \in TransportResults, j \in Jitters :
        /\ r.kind \in {"ConnectionError", "Timeout"}
        /\ results' = Append(results, r)
        /\ retry_count' = retry_count + 1
        /\ IF Exceeded(retry_count', max_retries)
           THEN /\ Finish(ClickUpAPIError(MsgConnection, r.kind, NoStatus, None))
                /\ UNCHANGED <<sleeps, jitter>>
           ELSE /\ jitter' = j
                /\ sleeps' = Append(sleeps,
                        Sleep("backoff", BackoffFixed(retry_delay, retry_count')))
                /\ UNCHANGED <<pc, outcome>>
    /\ UNCHANGED <<max_retries, retry_delay, error_data>>
    /\ UNCHANGED ext

\* except HTTPError: 5xx is retried with backoff, other statuses fail at once
HttpError ==
    /\ InLoop
    /\ \E r \in TransportResults, j \in Jitters :
        /\ r.kind = "response"
        /\ r.status # 429
        /\ RaisesForStatus(r.status)
        /\ results' = Append(results, r)
        /\ error_data' = ErrorDataAfter(error_data, r.body)
        /\ IF IsServerError(r.status)
           THEN /\ retry_count' = retry_count + 1
                /\ IF Exceeded(retry_count', max_retries)
                   THEN /\ Finish(ClickUpAPIError(MsgHttp, ErrorDetail(r.body),
                                    r.status, ErrorDataOrNone(error_data')))
                        /\ UNCHANGED <<sleeps, jitter>>
                   ELSE /\ jitter' = j
                        /\ sleeps' = Append(sleeps,
                                Sleep("backoff", BackoffFixed(retry_delay, retry_count')))
                        /\ UNCHANGED <<pc, outcome>>
           ELSE /\ Finish(ClickUpAPIError(MsgHttp, ErrorDetail(r.body),
                            r.status, ErrorDataOrNone(error_data')))
                /\ UNCHANGED <<retry_count, sleeps, jitter>>
    /\ UNCHANGED <<max_retries, retry_delay>>
    /\ UNCHANGED ext

\* except Exception: any other error of the transport
UnexpectedError ==
    /\ InLoop
    /\ \E r \in TransportResults :
        /\ r.kind \notin {"response", "ConnectionError", "Timeout"}
        /\ results' = Append(results, r)
        /\ Finish(Unexpected(r.kind))
    /\ UNCHANGED <<max_retries, retry_delay, retry_count, error_data, sleeps, jitter>>
    /\ UNCHANGED ext

\* the loop ends without return or raise
RetriesExhausted ==
    /\ pc = "while"
    /\ ~LoopCond(retry_count, max_retries)
    /\ Finish(ClickUpAPIError(MsgExhausted, "", NoStatus, None))
    /\ UNCHANGED <<max_retries, retry_delay, retry_count, error_data, results,
                   sleeps, jitter>>
    /\ UNCHANGED ext

Next ==
    \/ MakeRequest
    \/ RateLimited
    \/ Success
    \/ ConnectionFailure
    \/ HttpError
    \/ UnexpectedError
    \/ RetriesExhausted

Spec == Init /\ [][Next]_vars

\* the thread of the call keeps running and every transport call returns
FairSpec == Spec /\ WF_vars(Next)

(* ---------- vocabulary of the properties ---------- *)

Last(seq) == seq[Len(seq)]
Done == pc = "done"
\* this step issued one HTTP request and received NewResult
Received == Len(results') = Len(results) + 1
NewResult == results'[Len(results')]
Is2xx(r) == r.kind = "response" /\ 200 <= r.status /\ r.status < 300
Is429(r) == r.kind = "response" /\ r.status = 429
Is4xxNot429(r) == r.kind = "response" /\ 400 <= r.status /\ r.status < 500 /\ r.status # 429
Is5xx(r) == r.kind = "response" /\ 500 <= r.status /\ r.status < 600
IsConnErr(r) == r.kind \in {"ConnectionError", "Timeout"}
\* the decoded form of each JSON body of the model, written out
Decoded(raw) ==
    CASE raw = "{\"id\": \"123\"}"   -> [id |-> "123"]
      [] raw = "{\"id\": \"456\"}"   -> [id |-> "456"]
      [] raw = "{\"ok\": true}"      -> [ok |-> "true"]
      [] raw = "{\"err\": \"boom\"}" -> [err |-> "boom"]
      [] raw = "{\"err\": \"busy\"}" -> [err |-> "busy"]
ValidJson(raw) == raw # BodyHtml

(* ---------- C1 ---------- *)

C1_Bounded ==
    (max_retries >= 0) => Len(results) <= max_retries + 1
C1_OneOutcome ==
    /\ Done <=> outcome.kind \in {"return", "raise"}
    /\ outcome.kind = "return" => outcome.message = "" /\ outcome.value # None
    /\ outcome.kind = "raise" => outcome.message # "" /\ outcome.value = None
\* C1: with max_retries >= 0 a call issues at most max_retries + 1 HTTP
\* requests, its outcome is set once and never changed, a finished call has
\* exactly one of a returned body and a failure, and every call that was
\* started finishes.
C1_TerminatesInOneOutcome ==
    /\ [](C1_Bounded /\ C1_OneOutcome)
    /\ [][outcome # NoOutcome => outcome' = outcome /\ results' = results]_vars
    /\ (pc = "while") ~> Done
C1_Witness ==
    /\ Done /\ max_retries = 2 /\ Len(results) = 3 /\ outcome.kind = "return"

(* ---------- C2 ---------- *)

C2_Step ==
    (Received /\ Is4xxNot429(NewResult)) =>
        /\ pc' = "done"
        /\ outcome'.kind = "raise"
        /\ outcome'.message = MsgHttp
        /\ outcome'.status = NewResult.status
        /\ sleeps' = sleeps
C2_Last ==
    \A i \in 1 .. Len(results) :
        Is4xxNot429(results[i]) =>
            /\ i = Len(results)
            /\ Done
            /\ outcome.status = results[i].status
            /\ (i = 1 => sleeps = <<>>)
\* C2: a 4xx response other than 429, at whichever attempt, ends the call in
\* the same step with an HTTP-error failure carrying that status, without a
\* sleep, and it stays the last request of the call (a 404 on the first
\* attempt: one request, zero sleeps, status 404).
C2_ClientErrorFailsAtOnce == []C2_Last /\ [][C2_Step]_vars
C2_Witness ==
    /\ Done /\ Len(results) = 3 /\ Last(results).status = 404
    /\ outcome.kind = "raise" /\ outcome.status = 404 /\ Len(sleeps) = 2

(* ---------- C3 ---------- *)

\* a Retry-After header that is absent or holds delay-seconds
C3_Seconds(r) == IF r.retry_after = NoHeader THEN 60 ELSE 2
C3_Step ==
    (Received /\ Is429(NewResult) /\ NewResult.retry_after \in {NoHeader, "2"}) =>
        /\ sleeps' = Append(sleeps,
               [kind |-> "rate_limit", fixed |-> C3_Seconds(NewResult)])
        /\ jitter' = jitter
        /\ retry_count' = retry_count + 1
        /\ pc' = "while"
        /\ outcome' = NoOutcome
C3_Scenario ==
    (/\ max_retries = 3
     /\ Len(results) >= 2
     /\ \A i \in 1 .. 2 : Is429(results[i]) /\ results[i].retry_after = "2") =>
        /\ Len(sleeps) >= 2
        /\ \A i \in 1 .. 2 : sleeps[i] = [kind |-> "rate_limit", fixed |-> 2]
        /\ (Len(results) = 2 => pc = "while" /\ retry_count = 2)
        /\ (Len(results) = 3 /\ Last(results) = Response(200, BodyId, NoHeader) =>
                /\ Done
                /\ outcome.kind = "return"
                /\ outcome.value = [id |-> "123"]
                /\ Len(sleeps) = 2)
\* C3: a 429 response whose Retry-After header is absent or holds a number of
\* seconds makes the call sleep exactly 60 s, respectively that number of
\* seconds (no jitter is drawn), counts one attempt and goes back to the
\* loop test without ending the call; with 429, 429, 200 (Retry-After 2, max_retries = 3) the call makes
\* three requests, sleeps 2 s exactly twice and returns the body of the 200.
C3_RateLimitSleep == []C3_Scenario /\ [][C3_Step]_vars
C3_Witness ==
    /\ Done /\ max_retries = 3 /\ Len(results) = 3
    /\ Is429(results[1]) /\ results[1].retry_after = "2"
    /\ Is429(results[2]) /\ results[2].retry_after = "2"
    /\ results[3] = Response(200, BodyId, NoHeader)
    /\ outcome.kind = "return"

(* ---------- C4 ---------- *)

C4_Step ==
    (Received /\ Is5xx(NewResult) /\ retry_count + 1 <= max_retries) =>
        /\ retry_count' = retry_count + 1
        /\ Len(sleeps') = Len(sleeps) + 1
        /\ \A i \in 1 .. Len(sleeps) : sleeps'[i] = sleeps[i]
        /\ Last(sleeps').kind = "backoff"
        /\ Last(sleeps').fixed = retry_delay * 2 ^ (retry_count' - 1)
        /\ jitter' \in 0 .. (JitterDen - 1)
        /\ pc' = "while"
        /\ outcome' = NoOutcome
C4_Scenario ==
    (/\ max_retries = 3
     /\ retry_delay = 1
     /\ Len(results) = 3
     /\ results[1].status = 503
     /\ results[2].status = 503
     /\ results[3] = Response(200, BodyOk, NoHeader)) =>
        /\ Done
        /\ outcome.kind = "return"
        /\ outcome.value = [ok |-> "true"]
        /\ Len(sleeps) = 2
        /\ sleeps[1].fixed = 1
        /\ sleeps[2].fixed = 2
\* C4: a 5xx response that leaves the attempt count n at most max_retries
\* makes the call sleep retry_delay * 2^(n-1) seconds plus a jitter in [0,1)
\* and continue; with 503, 503, 200, retry_delay = 1 and max_retries = 3 the
\* fixed parts of the sleeps are 1 s and 2 s and the body of the 200 is
\* returned.
C4_ServerErrorBackoff == []C4_Scenario /\ [][C4_Step]_vars
C4_Witness ==
    /\ Done /\ max_retries = 3 /\ retry_delay = 1 /\ Len(results) = 3
    /\ results[1].status = 503 /\ results[2].status = 503
    /\ results[3] = Response(200, BodyOk, NoHeader)
    /\ jitter = JitterDen - 1

(* ---------- C5 ---------- *)

C5_Step ==
    (Received /\ Is2xx(NewResult) /\ ValidJson(NewResult.body)) =>
        /\ pc' = "done"
        /\ outcome'.kind = "return"
        /\ outcome'.value = Decoded(NewResult.body)
        /\ sleeps' = sleeps
C5_Last ==
    \A i \in 1 .. Len(results) :
        (Is2xx(results[i]) /\ ValidJson(results[i].body)) =>
            /\ i = Len(results)
            /\ Done
            /\ outcome = Return(Decoded(results[i].body))
\* C5: a 2xx response with a valid JSON body, at whichever attempt, ends the
\* call in the same step with exactly the decoded body as return value; no
\* sleep and no request follows it.
C5_SuccessReturnsBody == []C5_Last /\ [][C5_Step]_vars
C5_Witness ==
    /\ Done /\ Len(results) = 2 /\ Is5xx(results[1])
    /\ results[2] = Response(200, BodyId, NoHeader)
    /\ outcome.value = [id |-> "123"]

(* ---------- C6 ---------- *)

\* the failure each transient result leads to once retries are exhausted
C6_Transient(r) ==
    \/ Is429(r) /\ r.retry_after \in {NoHeader, "2"}
    \/ Is5xx(r)
    \/ IsConnErr(r)
C6_FailureFor(r) ==
    IF Is429(r) THEN MsgExhausted
    ELSE IF Is5xx(r) THEN MsgHttp
    ELSE MsgConnection
\* C6: with max_retries = 0 exactly one request is made, and a transient
\* failure of it (429, 5xx, connection or timeout error) gives the
\* corresponding exhausted-retries failure with no sleep before it.
C6_ZeroRetriesNoSleep ==
    (max_retries = 0 /\ Done) =>
        /\ Len(results) = 1
        /\ C6_Transient(results[1]) =>
              /\ outcome.kind = "raise"
              /\ outcome.message = C6_FailureFor(results[1])
              /\ sleeps = <<>>

(* ---------- C7 ---------- *)

\* C7: when every attempt of a call (max_retries >= 0) ends in a connection
\* or timeout error, the finished call has made exactly max_retries + 1
\* requests, has slept max_retries times, the i-th sleep being
\* retry_delay * 2^(i-1) seconds plus a jitter in [0,1), and has failed with
\* the connection failure.
C7_ConnectionErrorsExhaust ==
    (/\ Done
     /\ results # <<>>
     /\ \A i \in 1 .. Len(results) : IsConnErr(results[i])) =>
        /\ Len(results) = max_retries + 1
        /\ Len(sleeps) = max_retries
        /\ \A i \in 1 .. Len(sleeps) :
              /\ sleeps[i].kind = "backoff"
              /\ sleeps[i].fixed = retry_delay * 2 ^ (i - 1)
        /\ jitter \in 0 .. (JitterDen - 1)
        /\ outcome.kind = "raise"
        /\ outcome.message = MsgConnection
        /\ outcome.status = NoStatus
C7_Witness ==
    /\ Done /\ max_retries = 2 /\ Len(results) = 3
    /\ \A i \in 1 .. 3 : results[i].kind = "ConnectionError"
    /\ outcome.message = MsgConnection

(* ---------- C8 ---------- *)

\* the call used up its retries and the last response was a 429
C8_ExhaustedBy429 ==
    /\ Done
    /\ results # <<>>
    /\ Is429(Last(results))
    /\ retry_count > max_retries
\* the call failed on something else than a 429 that used up the retries
C8_OtherFailure ==
    /\ Done
    /\ outcome.kind = "raise"
    /\ results # <<>>
    /\ ~C8_ExhaustedBy429
\* C8: a call whose retries are exhausted by 429 responses fails with the
\* "Request failed after" failure, and no call that fails on a connection
\* error, a 5xx or 4xx response, an undecodable body or an unexpected error
\* fails with that failure: the caller can tell the rate-limited failure apart.
C8_RateLimitedDistinct ==
    /\ C8_ExhaustedBy429 =>
          outcome = ClickUpAPIError("Request failed after", "", NoStatus, None)
    /\ C8_OtherFailure =>
          /\ outcome.message # "Request failed after"
          /\ outcome.message \in
                {"Connection error after", "HTTP Error", "Unexpected error"}
C8_Witness ==
    /\ C8_ExhaustedBy429 /\ max_retries = 2 /\ Len(results) = 3
    /\ \A i \in 1 .. 3 : Is429(results[i])
    /\ outcome.message = MsgExhausted

(* ---------- C9 ---------- *)

\* C9: when a 5xx response exhausts the retries, the failure carries the
\* status of that last response and the decoded JSON body of that same
\* response, and no body when that body is not JSON.
C9_ServerErrorCarriesLastBody ==
    (/\ Done
     /\ results # <<>>
     /\ Is5xx(Last(results))) =>
        /\ outcome.kind = "raise"
        /\ outcome.status = Last(results).status
        /\ outcome.response =
              IF ValidJson(Last(results).body)
              THEN Decoded(Last(results).body)
              ELSE None

(* ---------- C10 ---------- *)

C10_Step ==
    (Received /\ Is2xx(NewResult) /\ ~ValidJson(NewResult.body)) =>
        /\ pc' = "done"
        /\ outcome' = ClickUpAPIError("Unexpected error", "JSONDecodeError", NoStatus, None)
        /\ sleeps' = sleeps
        /\ retry_count' = retry_count
C10_Last ==
    \A i \in 1 .. Len(results) :
        (Is2xx(results[i]) /\ ~ValidJson(results[i].body)) =>
            /\ i = Len(results)
            /\ Done
            /\ outcome.kind = "raise"
\* C10: a 2xx response whose body is not valid JSON ends the call in the same
\* step with the failure that wraps the decode error; it is not counted as a
\* retry, and no sleep and no request follows it, whatever budget remains.
C10_BadJsonNotRetried == []C10_Last /\ [][C10_Step]_vars
C10_Witness ==
    /\ Done /\ max_retries = 3 /\ Len(results) = 1
    /\ results[1] = Response(200, BodyHtml, NoHeader)
    /\ outcome.kind = "raise" /\ outcome.detail = "JSONDecodeError"

(* ---------- C11 ---------- *)

\* the failure raised after the loop
C11_FellThrough == Done /\ outcome.message = "Request failed after"
\* C11 as stated: the failure raised after the loop is reached only with
\* max_retries negative, or zero and a transient failure of the first
\* attempt; never with max_retries >= 1.
C11_FallThroughOnlyWithoutRetries ==
    C11_FellThrough =>
        \/ max_retries < 0
        \/ max_retries = 0 /\ Len(results) = 1 /\ C6_Transient(results[1])
\* C11 amended: the failure raised after the loop is reached only when
\* max_retries is negative (no request was made) or the last response of the
\* call was a 429 that used up the retry budget, which happens with every
\* max_retries >= 0; a call whose last attempt ended otherwise (connection or
\* timeout error, 4xx, 5xx, undecodable body, unexpected error) fails from
\* inside the loop.
C11_FallThroughOnlyAfter429 ==
    /\ C11_FellThrough =>
          \/ max_retries < 0 /\ results = <<>>
          \/ /\ max_retries >= 0
             /\ Len(results) = max_retries + 1
             /\ Is429(Last(results))
             /\ retry_count = max_retries + 1
    /\ (Done /\ outcome.kind = "raise" /\ results # <<>> /\ ~Is429(Last(results))) =>
          /\ ~C11_FellThrough
          /\ retry_count <= max_retries + 1
          /\ (retry_count = max_retries + 1 =>
                 Is5xx(Last(results)) \/ IsConnErr(Last(results)))
C11_Witness ==
    /\ C11_FellThrough /\ max_retries = 1 /\ Len(results) = 2
    /\ Is5xx(results[1]) /\ Is429(results[2])

(* ---------- successive calls on one client ---------- *)

\* number of successive calls of _make_request on the client
MaxCalls == 2
\* largest max_retries of the client that is called repeatedly
MaxCallRetries == 1

\* mutant: the counter lives on the client and survives the call
InitialRetryCount_Kept(previous) == previous
\* retry_count = 0 at the entry of every call
InitialRetryCount(previous) == 0

\* what the caller saw of a call that ended
CallRecord == [outcome |-> outcome, requests |-> Len(results), sleeps |-> Len(sleeps)]

\* the caller invokes _make_request again on the same client: a new frame
MakeRequestAgain ==
    /\ pc = "done"
    /\ Len(calls) + 1 < MaxCalls
    /\ calls' = Append(calls, CallRecord)
    /\ pc' = "while"
    /\ retry_count' = InitialRetryCount(retry_count)
    /\ error_data' = Unbound
    /\ results' = <<>>
    /\ sleeps' = <<>>
    /\ outcome' = NoOutcome
    /\ UNCHANGED <<max_retries, retry_delay, jitter, headers, th, t_count>>
    /\ UNCHANGED <<tasks, hpc, cur, nodes, hresult, api, cfv>>

InitCalls == Init /\ max_retries \in 0 .. MaxCallRetries

NextCalls ==
    \/ MakeRequest
    \/ RateLimited
    \/ Success
    \/ ConnectionFailure
    \/ HttpError
    \/ UnexpectedError
    \/ RetriesExhausted
    \/ MakeRequestAgain

SpecCalls == InitCalls /\ [][NextCalls]_vars

(* ---------- C12 ---------- *)

\* a later call of the client, after an earlier one ended
C12_LaterCall == calls # <<>> /\ pc # "idle"
C12_Budget ==
    C12_LaterCall =>
        /\ Len(results) <= max_retries + 1
        /\ retry_count <= max_retries + 1
        /\ (results = <<>> => retry_count = 0 /\ error_data = Unbound)
        /\ (Done /\ \A i \in 1 .. Len(results) : IsConnErr(results[i])) =>
              /\ Len(results) = max_retries + 1
              /\ outcome.message = "Connection error after"
C12_SameOutcome ==
    (/\ C12_LaterCall
     /\ Done
     /\ Last(calls).requests = 1
     /\ Last(calls).outcome.kind = "return"
     /\ Len(results) = 1
     /\ Is2xx(results[1])
     /\ ValidJson(results[1].body)
     /\ Decoded(results[1].body) = Last(calls).outcome.value) =>
        /\ outcome = Last(calls).outcome
        /\ Len(sleeps) = Last(calls).sleeps
\* C12: every call starts with retry_count = 0 and no error_data, whatever
\* the earlier call of the client consumed: a later call has its full budget
\* of max_retries + 1 requests (it makes exactly that many when each of its
\* attempts ends in a connection error), and two successive calls that both
\* get the same 2xx JSON response on the first attempt have the same outcome.
C12_RetryStateResetPerCall == C12_Budget /\ C12_SameOutcome
C12_Witness ==
    /\ C12_LaterCall /\ Done /\ max_retries = 1
    /\ Last(calls).requests = 2
    /\ Last(calls).outcome.message = "Connection error after"
    /\ Len(results) = 2
    /\ \A i \in 1 .. 2 : IsConnErr(results[i])
    /\ outcome.message = "Connection error after"

(* ---------- concurrent calls on one client ---------- *)

\* largest max_retries of the client that the threads share
MaxThreadRetries == 1

\* mutant: the counter is an attribute of the client, one for all threads
SetCounter_Shared(counts, t, v) == [u \in DOMAIN counts |-> v]
\* retry_count is a local of the call: an assignment reaches this frame only
SetCounter(counts, t, v) == [counts EXCEPT ![t] = v]

\* a frame that ended with outcome o
Ended(f, o) == [f EXCEPT !.pc = "done", !.outcome = o]
\* a frame that slept and goes back to the loop test
Slept(f) == [f EXCEPT !.slept = @ + 1]

\* one pass of the loop body on frame f with counter c, the transport giving r:
\* the frame and the counter after it
Attempt(f, c, r) ==
    LET g == [f EXCEPT !.requests = @ + 1] IN
    IF r.kind = "response" /\ r.status = 429
    THEN IF (r.retry_after # NoHeader /\ ~IsIntLiteral(r.retry_after))
            \/ RetryAfter(r) < 0
         THEN [frame |-> Ended(g, Unexpected("ValueError")), count |-> c]
         ELSE [frame |-> Slept(g), count |-> c + 1]
    ELSE IF r.kind = "response" /\ ~RaisesForStatus(r.status)
    THEN [frame |-> Ended(g, JsonOutcome(r.body)), count |-> c]
    ELSE IF r.kind \in {"ConnectionError", "Timeout"}
    THEN IF Exceeded(c + 1, max_retries)
         THEN [frame |-> Ended(g, ClickUpAPIError(MsgConnection, r.kind, NoStatus, None)),
               count |-> c + 1]
         ELSE [frame |-> Slept(g), count |-> c + 1]
    ELSE IF r.kind = "response"
    THEN LET ed == ErrorDataAfter(g.error_data, r.body)
             h  == [g EXCEPT !.error_data = ed]
             e  == ClickUpAPIError(MsgHttp, ErrorDetail(r.body), r.status,
                                   ErrorDataOrNone(ed))
         IN  IF IsServerError(r.status)
             THEN IF Exceeded(c + 1, max_retries)
                  THEN [frame |-> Ended(h, e), count |-> c + 1]
                  ELSE [frame |-> Slept(h), count |-> c + 1]
             ELSE [frame |-> Ended(h, e), count |-> c]
    ELSE [frame |-> Ended(g, Unexpected(r.kind)), count |-> c]

\* thread t enters _make_request
ThreadEnters(t) ==
    /\ th[t].pc = "idle"
    /\ th' = [th EXCEPT ![t].pc = "while"]
    /\ t_count' = SetCounter(t_count, t, 0)

\* thread t runs one pass of the loop
ThreadAttempts(t) ==
    /\ th[t].pc = "while"
    /\ LoopCond(t_count[t], max_retries)
    /\ \E r \in TransportResults :
          LET a == Attempt(th[t], t_count[t], r) IN
          /\ th' = [th EXCEPT ![t] = a.frame]
          /\ t_count' = SetCounter(t_count, t, a.count)

\* thread t leaves the loop through its test
ThreadExhausted(t) ==
    /\ th[t].pc = "while"
    /\ ~LoopCond(t_count[t], max_retries)
    /\ th' = [th EXCEPT ![t] = Ended(@, ClickUpAPIError(MsgExhausted, "", NoStatus, None))]
    /\ UNCHANGED t_count

InitThreads == Init /\ max_retries \in 0 .. MaxThreadRetries

NextThreads ==
    /\ \E t \in Threads :
          \/ ThreadEnters(t)
          \/ ThreadAttempts(t)
          \/ ThreadExhausted(t)
    /\ UNCHANGED <<max_retries, retry_delay, pc, retry_count, error_data,
                   results, sleeps, jitter, outcome, calls, headers>>
    /\ UNCHANGED <<tasks, hpc, cur, nodes, hresult, api, cfv>>

SpecThreads == InitThreads /\ [][NextThreads]_vars

(* ---------- C13 ---------- *)

C13_OwnBudget ==
    \A t \in Threads :
        /\ (max_retries >= 0) => th[t].requests <= max_retries + 1
        /\ th[t].pc = "while" => t_count[t] = th[t].requests
        /\ (th[t].pc = "done" /\ th[t].outcome.message = "Connection error after") =>
              th[t].requests = max_retries + 1
C13_OwnCounter ==
    \A t \in Threads :
        t_count'[t] # t_count[t] =>
            /\ th[t].pc \in {"idle", "while"}
            /\ th'[t] # th[t]
            /\ \A u \in Threads \ {t} : th'[u] = th[u] /\ t_count'[u] = t_count[u]
\* C13: calls that run concurrently on one client each have their own attempt
\* counter: a step of one call changes the counter and the frame of no other
\* call, every call makes at most max_retries + 1 requests under every
\* interleaving, and no step of a call changes the client's headers,
\* max_retries or retry_delay.
C13_NoSharedRetryState ==
    /\ []C13_OwnBudget
    /\ [][C13_OwnCounter]_vars
    /\ [][UNCHANGED <<headers, max_retries, retry_delay>>]_vars
C13_Witness ==
    /\ max_retries = 1
    /\ th["t1"].pc = "done" /\ th["t1"].requests = 2
    /\ th["t1"].outcome.message = "Connection error after"
    /\ th["t2"].pc = "while" /\ th["t2"].requests = 1 /\ t_count["t2"] = 1

(* ---------- main and create_task_hierarchy ---------- *)

\* largest max_retries of the client that creates the tasks
MaxHierRetries == 1
\* retry_delay: float = 1.0, the default main constructs the client with
DefaultRetryDelay == 1
\* create_task_hierarchy handles the main task, its subtasks and their
\* subtasks: three nested levels of code
HandledDepth == 3

\* task structures: a node is the path of list indices that leads to it
\* (<<1, 2>> is the second subtask of the first top-level task)
DeepStructure ==
    {<<1>>, <<1, 1>>, <<1, 1, 1>>, <<1, 1, 2>>, <<1, 1, 2, 1>>, <<1, 2>>, <<2>>}
FlatStructure ==
    {<<1>>, <<1, 1>>, <<1, 2>>, <<2>>, <<2, 1>>}
TaskStructures == {DeepStructure, FlatStructure}

\* a value without the key "id"
NoId == "<no id>"
\* a node no create was called for
FreshNode == [calls |-> 0, status |-> "none", value |-> None, parent_used |-> NoId]

Parent(n) == SubSeq(n, 1, Len(n) - 1)
NextSibling(n) == [n EXCEPT ![Len(n)] = @ + 1]
FirstChild(n) == Append(n, 1)
TopOf(n) == <<n[1]>>

\* where the loops go once node n and all below it are dealt with: the next
\* element of the innermost for loop that has one, <<>> when main's loop ends
RECURSIVE After(_)
After(n) ==
    IF NextSibling(n) \in tasks THEN NextSibling(n)
    ELSE IF Len(n) = 1 THEN <<>>
    ELSE After(Parent(n))

\* mutant: a failed create of a subtask leaves the whole hierarchy of its task
Resume_FailureAborts(n, created) ==
    IF created /\ Len(n) < HandledDepth /\ FirstChild(n) \in tasks
    THEN FirstChild(n)
    ELSE IF created THEN After(n) ELSE After(TopOf(n))
\* mutant: a failed create is tried again by the caller
Resume_RetryFailed(n, created) ==
    IF created /\ Len(n) < HandledDepth /\ FirstChild(n) \in tasks
    THEN FirstChild(n)
    ELSE IF created THEN After(n) ELSE n
\* the node handled after the create of n ended: its first subtask when the
\* create returned and the code has a loop for that level, else what follows
Resume(n, created) ==
    IF created /\ Len(n) < HandledDepth /\ FirstChild(n) \in tasks
    THEN FirstChild(n)
    ELSE After(n)

\* mutant: a nested subtask is attached to the main task
ParentId_OfMain(n) == DictGet(nodes[TopOf(n)].value, "id", NoId)
\* main_task["id"], subtask["id"]: the id the parent's create returned
ParentId(n) == DictGet(nodes[Parent(n)].value, "id", NoId)

\* mutant: the hierarchy raises when any create below the main task failed
HierarchyResult_AnyFailure(ns, t) ==
    IF \E n \in DOMAIN ns : n[1] = t /\ ns[n].status \in {"failed", "keyerror"}
    THEN [kind |-> "raised", value |-> None]
    ELSE [kind |-> "returned", value |-> ns[<<t>>].value]
\* create_task_hierarchy of top-level task t: return main_task, or re-raise
\* what the create of the main task raised
HierarchyResult(ns, t) ==
    IF ns[<<t>>].status = "failed"
    THEN [kind |-> "raised", value |-> None]
    ELSE [kind |-> "returned", value |-> ns[<<t>>].value]

\* control moves from node n to node m: the hierarchies left on the way end
Leave(ns, n, m) ==
    /\ cur' = m
    /\ hpc' = IF m = <<>> THEN "finished" ELSE "next"
    /\ hresult' = IF m = <<>> \/ m[1] # n[1]
                  THEN [hresult EXCEPT ![n[1]] = HierarchyResult(ns, n[1])]
                  ELSE hresult

\* the entry of _make_request for the create of node n
EnterCreate(n, parent_id) ==
    /\ nodes' = [nodes EXCEPT ![n].calls = @ + 1, ![n].parent_used = parent_id]
    /\ hpc' = "calling"
    /\ pc' = "while"
    /\ retry_count' = 0
    /\ error_data' = Unbound
    /\ results' = <<>>
    /\ sleeps' = <<>>
    /\ outcome' = NoOutcome
    /\ UNCHANGED <<max_retries, retry_delay, jitter, calls, headers, th, t_count,
                   tasks, cur, hresult, api, cfv>>

\* main: for task in tasks: create_task_hierarchy -> self.create_task(...)
CreateTask ==
    /\ hpc = "next"
    /\ Len(cur) = 1
    /\ EnterCreate(cur, NoId)

\* self.create_subtask(parent_id=main_task["id"] or subtask["id"], ...)
CreateSubtask ==
    /\ hpc = "next"
    /\ Len(cur) > 1
    /\ ParentId(cur) # NoId
    /\ EnterCreate(cur, ParentId(cur))

\* main_task["id"] or subtask["id"] raises KeyError inside the try block of
\* the subtask: it is logged as a failed subtask, no request is made
ParentWithoutId ==
    /\ hpc = "next"
    /\ Len(cur) > 1
    /\ ParentId(cur) = NoId
    /\ nodes' = [nodes EXCEPT ![cur].status = "keyerror"]
    /\ Leave(nodes', cur, Resume(cur, FALSE))
    /\ UNCHANGED <<max_retries, retry_delay, pc, retry_count, error_data,
                   results, sleeps, jitter, outcome, calls, headers, th,
                   t_count, tasks, api, cfv>>

\* _make_request returned or raised: the loops of create_task_hierarchy and
\* of main go on
CreateEnded ==
    /\ hpc = "calling"
    /\ pc = "done"
    /\ nodes' = [nodes EXCEPT
                    ![cur].status = IF outcome.kind = "return" THEN "created" ELSE "failed",
                    ![cur].value = outcome.value]
    /\ Leave(nodes', cur, Resume(cur, outcome.kind = "return"))
    /\ UNCHANGED <<max_retries, retry_delay, pc, retry_count, error_data,
                   results, sleeps, jitter, outcome, calls, headers, th,
                   t_count, tasks, api, cfv>>

\* main() loads the task structure and constructs the client
InitHierarchy ==
    /\ max_retries \in 0 .. MaxHierRetries
    /\ retry_delay = DefaultRetryDelay
    /\ pc = "idle"
    /\ retry_count = 0
    /\ error_data = Unbound
    /\ results = <<>>
    /\ sleeps = <<>>
    /\ jitter = 0
    /\ outcome = NoOutcome
    /\ ExtInit
    /\ ApiIdle
    /\ CfIdle
    /\ tasks \in TaskStructures
    /\ hpc = "next"
    /\ cur = <<1>>
    /\ nodes = [n \in tasks |-> FreshNode]
    /\ hresult = [t \in {n[1] : n \in tasks} |-> [kind |-> "none", value |-> None]]

NextHierarchy ==
    \/ CreateTask
    \/ CreateSubtask
    \/ ParentWithoutId
    \/ CreateEnded
    \/ RateLimited
    \/ Success
    \/ ConnectionFailure
    \/ HttpError
    \/ UnexpectedError
    \/ RetriesExhausted

SpecHierarchy == InitHierarchy /\ [][NextHierarchy]_vars

(* ---------- vocabulary of the hierarchy properties ---------- *)

Finished == hpc = "finished"
\* _make_request was called for node n
Called(n) == nodes[n].calls >= 1
\* the create of node n raised
CreateFailed(n) == nodes[n].status = "failed"
\* the create of node n returned a task that has an id
CreatedWithId(n) ==
    /\ nodes[n].status = "created"
    /\ "id" \in DOMAIN nodes[n].value
IsPrefix(a, n) == Len(a) < Len(n) /\ SubSeq(n, 1, Len(a)) = a
Ancestors(n) == {a \in tasks : IsPrefix(a, n)}
Descendants(n) == {d \in tasks : IsPrefix(n, d)}
LaterSiblings(n) ==
    {m \in tasks : Len(m) = Len(n) /\ Parent(m) = Parent(n) /\ m[Len(m)] > n[Len(n)]}

(* ---------- C14 ---------- *)

\* C14: when main has finished, every later sibling of a node whose create
\* failed had its own create called: later subtasks after a failed subtask,
\* later nested subtasks after a failed nested subtask, later top-level tasks
\* after a failed top-level task.
C14_SiblingsStillCreated ==
    Finished =>
        \A n \in tasks :
            CreateFailed(n) => \A m \in LaterSiblings(n) : Called(m)
C14_Witness ==
    /\ Finished /\ tasks = DeepStructure
    /\ CreateFailed(<<1, 1, 1>>) /\ Called(<<1, 1, 2>>)
    /\ CreateFailed(<<1, 1, 2>>) /\ Called(<<1, 2>>)
    /\ CreateFailed(<<1, 2>>) /\ Called(<<2>>)
    /\ hresult[1].kind = "returned"

(* ---------- C15 ---------- *)

\* C15: within one run _make_request is called at most once for each node of
\* the task structure, also after a call that failed with its retries used
\* up, and such a call issues at most max_retries + 1 requests.
C15_NoRetryAboveTheCall ==
    /\ \A n \in tasks : nodes[n].calls <= 1
    /\ (hpc = "calling") => Len(results) <= max_retries + 1
C15_Witness ==
    /\ Finished /\ max_retries = 1
    /\ CreateFailed(<<1>>) /\ nodes[<<1>>].calls = 1
    /\ CreateFailed(<<2>>) /\ nodes[<<2>>].calls = 1
    /\ Len(results) = 2 /\ outcome.message = "Connection error after"

(* ---------- a peer that never answers ---------- *)

\* requests.request(...) is called without timeout=: when the peer sends
\* nothing, the call blocks inside the transport and no exception is raised
PeerNeverAnswers ==
    /\ InLoop
    /\ pc' = "blocked"
    /\ UNCHANGED <<max_retries, retry_delay, retry_count, error_data, results,
                   sleeps, jitter, outcome>>
    /\ UNCHANGED ext

NextHang ==
    \/ MakeRequest
    \/ RateLimited
    \/ Success
    \/ ConnectionFailure
    \/ HttpError
    \/ UnexpectedError
    \/ RetriesExhausted
    \/ PeerNeverAnswers

\* the thread of the call runs whenever it can take a step
SpecHang == Init /\ [][NextHang]_vars /\ WF_vars(NextHang)

(* ---------- C16 ---------- *)

\* C16: every attempt is bounded by a transport timeout: also when the
\* transport delivers no response to some attempt, a call that was started
\* eventually ends in an outcome.
C16_HungPeerCannotStall == (pc = "while") ~> Done

(* ---------- C17 ---------- *)

\* C17: when main has finished, every node of the task structure, at whatever
\* depth, all of whose ancestors were created (their creates returned a task
\* with an id) had its own create called.
C17_EveryDepthCreated ==
    Finished =>
        \A n \in tasks :
            (\A a \in Ancestors(n) : CreatedWithId(a)) => Called(n)

(* ---------- the API application (xtraqtivCore/api.py) ---------- *)

MaxApiRequests == 3

\* a path is the sequence of its segments; "/" is the empty sequence
RootPath == <<>>
\* a path parameter of a route, as in /notes/{note_guid}/content
PathParam == "{}"

Route(method, path) == [method |-> method, path |-> path]

\* the routes of app: those FastAPI() adds itself (openapi, docs, redoc),
\* then the decorated handlers in the order of the file
app ==
    { Route("GET", <<"openapi.json">>),
      Route("GET", <<"docs">>),
      Route("GET", <<"docs", "oauth2-redirect">>),
      Route("GET", <<"redoc">>),
      Route("POST", <<"auth", "start">>),
      Route("GET", <<"auth", "callback">>),
      Route("POST", <<"auth", "exchange-token">>),
      Route("GET", <<"auth", "status">>),
      Route("POST", <<"auth", "logout">>),
      Route("GET", <<"notebooks">>),
      Route("POST", <<"notes", "fetch-metadata">>),
      Route("GET", <<"notes", PathParam, "content">>),
      Route("GET", <<"attachments", PathParam, "data">>),
      Route("POST", <<"notes", "convert">>),
      Route("POST", <<"export", "notebooks">>) }

\* a route path matches a request path segment by segment
PathMatches(route_path, path) ==
    /\ Len(route_path) = Len(path)
    /\ \A i \in 1 .. Len(path) :
          route_path[i] = PathParam \/ route_path[i] = path[i]

\* the router: a route of that path and method, of that path only, or none
Match(method, path) ==
    IF \E r \in app : PathMatches(r.path, path) /\ r.method = method
    THEN "full"
    ELSE IF \E r \in app : PathMatches(r.path, path)
         THEN "partial"
         ELSE "none"

JsonResponse(status, body) == [status |-> status, media |-> "json", body |-> body]
HtmlResponse(status, body) == [status |-> status, media |-> "html", body |-> body]

\* the requests sent to the application
Methods == {"GET", "POST"}
RequestPaths == { RootPath, <<"auth", "logout">>, <<"missing">> }
\* a query parameter that is not in the request
NoParam == "<none>"
OAuthTokens == {"ot1", "ot2"}
TokenParams == {NoParam, ""} \cup OAuthTokens
VerifierParams == {NoParam, "v1"}
\* the access token Evernote hands out
AccessToken == [token |-> "S=s1:U=1"]

\* the state of the synchronisation script, which the application never touches
sync == <<max_retries, retry_delay, pc, retry_count, error_data, results,
          sleeps, jitter, outcome, cfv, calls, headers, th, t_count, tasks, hpc,
          cur, nodes, hresult>>

\* a request can be taken: perform_actual_export is a coroutine that never
\* awaits, so no other request is taken while it runs
CanHandle == Len(api_log) < MaxApiRequests /\ export_pc = "idle"

\* the request is answered; oauth_token is the token it named, if any
HandledFor(method, path, oauth_token, response) ==
    api_log' = Append(api_log, [method |-> method, path |-> path,
                                oauth_token |-> oauth_token,
                                response |-> response])
Handled(method, path, response) == HandledFor(method, path, NoParam, response)

\* keyring.get_password, None when the keyring raises
KeyringGet == {keyring_token, None}

\* GET /auth/status
auth_status ==
    /\ CanHandle
    /\ Match("GET", <<"auth", "status">>) = "full"
    /\ \E token \in KeyringGet :
          Handled("GET", <<"auth", "status">>,
                  JsonResponse(200, [authenticated |-> token # None]))
    /\ UNCHANGED <<keyring_token, temp_oauth_storage, evernote_calls, files,
                   export_state>>
    /\ UNCHANGED sync

\* POST /auth/logout; a keyring error is logged and the password stays
auth_logout ==
    /\ CanHandle
    /\ Match("POST", <<"auth", "logout">>) = "full"
    /\ keyring_token' \in {None, keyring_token}
    /\ Handled("POST", <<"auth", "logout">>,
               JsonResponse(200, [status |-> "logged out"]))
    /\ UNCHANGED <<temp_oauth_storage, evernote_calls, files, export_state>>
    /\ UNCHANGED sync

\* GET /auth/callback?oauth_token=..&oauth_verifier=..
auth_callback_phase1 ==
    /\ CanHandle
    /\ Match("GET", <<"auth", "callback">>) = "full"
    /\ \E oauth_token \in TokenParams, oauth_verifier \in VerifierParams :
          IF oauth_token \in {NoParam, ""} \/ oauth_verifier \in {NoParam, ""}
          THEN /\ HandledFor("GET", <<"auth", "callback">>, oauth_token,
                             HtmlResponse(400, "Authentication Error"))
               /\ UNCHANGED temp_oauth_storage
          ELSE /\ temp_oauth_storage' =
                      [k \in DOMAIN temp_oauth_storage \cup {oauth_token} |->
                          IF k = oauth_token THEN oauth_verifier
                          ELSE temp_oauth_storage[k]]
               /\ HandledFor("GET", <<"auth", "callback">>, oauth_token,
                             HtmlResponse(200, "Authentication Successful"))
    /\ UNCHANGED <<keyring_token, evernote_calls, files, export_state>>
    /\ UNCHANGED sync

\* mutant: the verifier stays in the storage after an exchange
Without_Keeps(storage, oauth_token) == storage
\* del temp_oauth_storage[oauth_token]
Without(storage, oauth_token) ==
    [k \in DOMAIN storage \ {oauth_token} |-> storage[k]]

\* mutant: the exchange goes on without a stored verifier
HasVerifier_Always(storage, oauth_token) == TRUE
\* stored_data = temp_oauth_storage.get(payload.oauth_token), "if not stored_data"
HasVerifier(storage, oauth_token) == oauth_token \in DOMAIN storage

\* POST /auth/exchange-token
auth_exchange_token ==
    /\ CanHandle
    /\ Match("POST", <<"auth", "exchange-token">>) = "full"
    /\ \E oauth_token \in OAuthTokens :
          IF ~HasVerifier(temp_oauth_storage, oauth_token)
          THEN /\ HandledFor("POST", <<"auth", "exchange-token">>, oauth_token,
                          JsonResponse(404, [detail |-> "OAuth verifier not found or expired. Please try login again."]))
               /\ UNCHANGED <<keyring_token, temp_oauth_storage, evernote_calls,
                              files, export_state>>
          ELSE /\ evernote_calls' = Append(evernote_calls, "get_access_token")
               /\ temp_oauth_storage' = Without(temp_oauth_storage, oauth_token)
               /\ UNCHANGED <<files, export_state>>
               /\ \/ /\ keyring_token' \in {AccessToken, keyring_token}
                     /\ HandledFor("POST", <<"auth", "exchange-token">>, oauth_token,
                                JsonResponse(200, [status |-> "authenticated"]))
                  \/ /\ UNCHANGED keyring_token
                     /\ HandledFor("POST", <<"auth", "exchange-token">>, oauth_token,
                                JsonResponse(500, [detail |-> "Failed to get final access token from Evernote."]))
    /\ UNCHANGED sync

\* a request no route takes: 405 when only the method differs, else 404
NoRoute ==
    /\ CanHandle
    /\ \E method \in Methods, path \in RequestPaths :
          /\ Match(method, path) # "full"
          /\ Handled(method, path,
                     IF Match(method, path) = "partial"
                     THEN JsonResponse(405, [detail |-> "Method Not Allowed"])
                     ELSE JsonResponse(404, [detail |-> "Not Found"]))
    /\ UNCHANGED <<keyring_token, temp_oauth_storage, evernote_calls, files,
                   export_state>>
    /\ UNCHANGED sync

(* the protected endpoints *)

\* what get_current_active_token answers without a token
Unauthenticated ==
    JsonResponse(401, [detail |-> "Not authenticated or token expired."])

\* mutant: the dependency lets a request without a token through
NoToken_Never(token) == FALSE
\* get_current_active_token: if not token
NoToken(token) == token = None

\* a protected endpoint that makes Evernote calls and answers one of answers;
\* without a token the dependency answers and the handler does not run
Protected(method, path, evernote, answers) ==
    /\ \E token \in KeyringGet :
          IF NoToken(token)
          THEN /\ Handled(method, path, Unauthenticated)
               /\ UNCHANGED evernote_calls
          ELSE /\ evernote_calls' = evernote_calls \o evernote
               /\ \E r \in answers : Handled(method, path, r)
    /\ UNCHANGED <<keyring_token, temp_oauth_storage, files, export_state>>
    /\ UNCHANGED sync

AuthExpired ==
    JsonResponse(401, [detail |-> "Evernote authentication expired or invalid. Please re-authenticate."])
Failed(status) == JsonResponse(status, [detail |-> "error"])

\* GET /notebooks
list_notebooks ==
    /\ CanHandle
    /\ Match("GET", <<"notebooks">>) = "full"
    /\ Protected("GET", <<"notebooks">>, <<"listNotebooks">>,
              {JsonResponse(200, [notebooks |-> "nb1"]), AuthExpired, Failed(500)})

\* POST /notes/fetch-metadata
fetch_notes_metadata ==
    /\ CanHandle
    /\ Match("POST", <<"notes", "fetch-metadata">>) = "full"
    /\ Protected("POST", <<"notes", "fetch-metadata">>, <<"findNotesMetadata">>,
              {JsonResponse(200, [notes |-> "g1"]), Failed(503)})

\* GET /notes/{note_guid}/content
fetch_note_content ==
    /\ CanHandle
    /\ Match("GET", <<"notes", "g1", "content">>) = "full"
    /\ Protected("GET", <<"notes", "g1", "content">>, <<"getNote">>,
              {JsonResponse(200, [guid |-> "g1"]), Failed(404), Failed(500)})

\* GET /attachments/{attachment_guid}/data
fetch_attachment_data ==
    /\ CanHandle
    /\ Match("GET", <<"attachments", "r1", "data">>) = "full"
    /\ Protected("GET", <<"attachments", "r1", "data">>, <<"getResource">>,
              {[status |-> 200, media |-> "stream", body |-> [data |-> "bytes"]],
               Failed(404), Failed(500)})

\* POST /notes/convert: converts what the request carries, no Evernote call
convert_note_content ==
    /\ CanHandle
    /\ Match("POST", <<"notes", "convert">>) = "full"
    /\ Protected("POST", <<"notes", "convert">>, <<>>,
              {JsonResponse(200, [converted_format |-> "markdown"]), Failed(400)})

(* POST /export/notebooks *)

MaxNotes == 2
MaxExports == 1
CollisionLimit == 100

ExportPath == <<"export", "notebooks">>
\* request_data.target_format.lower()
ExportFormats == {"markdown", "pdf"}
FileExtension(format) ==
    IF format = "markdown" THEN ".md"
    ELSE IF format = "html" THEN ".html"
    ELSE ""

\* sanitized note titles; the second is also the first fallback name of the first
Titles == {"a", "a_1"}
\* a note of the notebook: its title and what getNote gives for it
Notes == [title : Titles, got : {"content", "no content", "error"}]
\* the notes findNotesMetadata lists for the notebook of the request
NotesLists == UNION {[1 .. n -> Notes] : n \in 0 .. MaxNotes}

\* notebook_export_path / (stem + "_" + counter + file_extension); 0: no suffix
FileName(stem, counter, file_extension) ==
    IF counter = 0 THEN stem \o file_extension
    ELSE stem \o "_" \o ToString(counter) \o file_extension

\* if counter > 100: break
GaveUp(counter) == counter > CollisionLimit

\* while file_path.exists(): file_path = stem_counter; counter += 1;
\*     if counter > 100: break
\* called with the name tried last (by its suffix) and counter; it gives the
\* name and the counter the loop ends with
RECURSIVE Collide(_, _, _, _, _)
Collide(existing, stem, file_extension, suffix, counter) ==
    IF FileName(stem, suffix, file_extension) \notin existing
    THEN [suffix |-> suffix, counter |-> counter]
    ELSE IF GaveUp(counter + 1)
         THEN [suffix |-> counter, counter |-> counter + 1]
         ELSE Collide(existing, stem, file_extension, counter, counter + 1)

\* mutant: the note is written to the name the loop ended with in every case
Skipped_Never(existing, name, counter) == FALSE
\* if file_path.exists() and counter > 100: continue
Skipped(existing, name, counter) == name \in existing /\ GaveUp(counter)

\* the exports answered so far
Exports == {i \in 1 .. Len(api_log) : api_log[i].path = ExportPath}

\* the handler starts: dependency, format test, listNotebooks, findNotesMetadata
perform_actual_export ==
    /\ CanHandle
    /\ Cardinality(Exports) < MaxExports
    /\ Match("POST", ExportPath) = "full"
    /\ \E token \in KeyringGet, format \in ExportFormats :
          IF NoToken(token)
          THEN /\ Handled("POST", ExportPath, Unauthenticated)
               /\ UNCHANGED <<evernote_calls, export_state>>
          ELSE IF FileExtension(format) = ""
          THEN /\ Handled("POST", ExportPath, Failed(400))
               /\ UNCHANGED <<evernote_calls, export_state>>
          ELSE \/ /\ evernote_calls' = Append(evernote_calls, "listNotebooks")
                  /\ Handled("POST", ExportPath, Failed(500))
                  /\ UNCHANGED export_state
               \/ /\ evernote_calls' =
                         evernote_calls \o <<"listNotebooks", "findNotesMetadata">>
                  /\ export_pc' = "notes"
                  /\ export_format' = format
                  /\ export_notes' \in NotesLists
                  /\ notes_exported_count' = 0
                  /\ UNCHANGED api_log
    /\ UNCHANGED <<keyring_token, temp_oauth_storage, files>>
    /\ UNCHANGED sync

\* one pass of "for en_note_meta in notes_metadata_list.notes"
ExportNote ==
    /\ export_pc = "notes"
    /\ export_notes # <<>>
    /\ evernote_calls' = Append(evernote_calls, "getNote")
    /\ export_notes' = Tail(export_notes)
    /\ LET file_extension == FileExtension(export_format)
              stem == Head(export_notes).title
              got == Head(export_notes).got
              at == Collide(DOMAIN files, stem, file_extension, 0, 1)
              name == FileName(stem, at.suffix, file_extension)
          IN  IF got # "content" \/ Skipped(DOMAIN files, name, at.counter)
              THEN UNCHANGED <<files, notes_exported_count>>
              ELSE /\ files' = [f \in DOMAIN files \cup {name} |->
                                   IF f = name
                                   THEN [note |-> stem, n |-> notes_exported_count + 1]
                                   ELSE files[f]]
                   /\ notes_exported_count' = notes_exported_count + 1
    /\ UNCHANGED <<keyring_token, temp_oauth_storage, api_log, export_pc,
                   export_format>>
    /\ UNCHANGED sync

\* return ExportResponse(..., notes_processed=notes_exported_count)
ExportReturns ==
    /\ export_pc = "notes"
    /\ export_notes = <<>>
    /\ Handled("POST", ExportPath,
               JsonResponse(200, [notes_processed |-> notes_exported_count]))
    /\ export_pc' = "idle"
    /\ export_format' = ""
    /\ notes_exported_count' = 0
    /\ UNCHANGED <<keyring_token, temp_oauth_storage, evernote_calls, files,
                   export_notes>>
    /\ UNCHANGED sync

NextApi ==
    \/ auth_status
    \/ auth_logout
    \/ auth_callback_phase1
    \/ auth_exchange_token
    \/ NoRoute
    \/ list_notebooks
    \/ fetch_notes_metadata
    \/ fetch_note_content
    \/ fetch_attachment_data
    \/ convert_note_content
    \/ perform_actual_export
    \/ ExportNote
    \/ ExportReturns

\* the application starts with whatever an earlier run left in the keyring;
\* no ClickUp client exists in its process, the client's state stays put
InitApi ==
    /\ max_retries = 0
    /\ retry_delay = DefaultRetryDelay
    /\ pc = "idle"
    /\ retry_count = 0
    /\ error_data = Unbound
    /\ results = <<>>
    /\ sleeps = <<>>
    /\ jitter = 0
    /\ outcome = NoOutcome
    /\ ExtInit
    /\ HierIdle
    /\ ApiStart
    /\ CfIdle
    /\ keyring_token \in {None, AccessToken}
    /\ files = NoFiles

SpecApi == InitApi /\ [][NextApi]_vars

\* the files of an earlier export: the name of title "a" and its fallback
\* names with the suffixes in taken
OldFiles(taken) ==
    [f \in {FileName("a", k, ".md") : k \in taken} |-> [note |-> "old", n |-> 0]]
\* export directories: empty, a plain collision, a gap in the fallback
\* names, only a fallback name, the last fallback name free, none free
ExportDirs ==
    { OldFiles({}), OldFiles({0}), OldFiles({0, 2}), OldFiles({1}),
      OldFiles(0 .. (CollisionLimit - 1)), OldFiles(0 .. CollisionLimit) }

\* exports by an authenticated user into a directory that holds files
InitExport ==
    /\ max_retries = 0
    /\ retry_delay = DefaultRetryDelay
    /\ pc = "idle"
    /\ retry_count = 0
    /\ error_data = Unbound
    /\ results = <<>>
    /\ sleeps = <<>>
    /\ jitter = 0
    /\ outcome = NoOutcome
    /\ ExtInit
    /\ HierIdle
    /\ ApiStart
    /\ CfIdle
    /\ keyring_token = AccessToken
    /\ files \in ExportDirs

NextExport ==
    \/ perform_actual_export
    \/ ExportNote
    \/ ExportReturns

SpecExport == InitExport /\ [][NextExport]_vars

(* ---------- C18 ---------- *)

\* C18: every GET / the application handled, whatever the keyring held, was
\* answered with status 200 and a JSON body whose "message" is
\* "Evernote Extractor API".
C18_RootAnswers200 ==
    \A i \in 1 .. Len(api_log) :
        (api_log[i].method = "GET" /\ api_log[i].path = RootPath) =>
            /\ api_log[i].response.status = 200
            /\ api_log[i].response.media = "json"
            /\ "message" \in DOMAIN api_log[i].response.body
            /\ api_log[i].response.body["message"] = "Evernote Extractor API"

(* ---------- C19 ---------- *)

\* C19: create_task_hierarchy of a top-level task raises exactly when the
\* create of its main task failed; when that create returned, the hierarchy
\* returns what it returned, however many creates below it failed.
C19_RaisesOnlyForMainTask ==
    \A n \in tasks :
        (Len(n) = 1 /\ hresult[n[1]].kind # "none") =>
            /\ hresult[n[1]].kind = "raised" <=> CreateFailed(n)
            /\ nodes[n].status = "created" =>
                  /\ hresult[n[1]].kind = "returned"
                  /\ hresult[n[1]].value = nodes[n].value
                  /\ hresult[n[1]].value # None
C19_Witness ==
    /\ Finished /\ tasks = DeepStructure
    /\ hresult[1] = [kind |-> "returned", value |-> [id |-> "123"]]
    /\ CreateFailed(<<1, 1>>) /\ CreateFailed(<<1, 2>>)
    /\ hresult[2].kind = "raised"

(* ---------- C20 ---------- *)

\* C20: a create is called for a subtask only after the create of its parent
\* returned, with the id that call returned as parent id; no create is ever
\* called for a descendant of a node whose create did not return.
C20_ParentBeforeChild ==
    \A n \in tasks :
        /\ (Len(n) > 1 /\ Called(n)) =>
              /\ CreatedWithId(Parent(n))
              /\ nodes[n].parent_used = nodes[Parent(n)].value.id
        /\ (cur = n /\ hpc = "calling" /\ Len(n) > 1) => CreatedWithId(Parent(n))
        /\ nodes[n].status \in {"failed", "keyerror"} =>
              \A d \in Descendants(n) : ~Called(d) /\ cur # d
C20_Witness ==
    /\ Finished /\ tasks = DeepStructure
    /\ nodes[<<1>>].value = [id |-> "123"]
    /\ nodes[<<1, 1>>].value = [id |-> "456"]
    /\ nodes[<<1, 1>>].parent_used = "123"
    /\ nodes[<<1, 1, 1>>].parent_used = "456"
    /\ CreateFailed(<<1, 2>>)

(* ---------- C21 ---------- *)

\* C21: a call of _make_request that returned a body received a response
\* with a 2xx status as its last transport result.
C21_ReturnsOnlyFor2xx ==
    (Done /\ outcome.kind = "return") => Is2xx(Last(results))

(* ---------- set_custom_field_value ---------- *)

\* Python None where the model holds a string
NoValue == "<None>"
\* "if not x" for a string or None
Falsy(v) == v \in {NoValue, ""}
\* {}
EmptyDict == [k \in {} |-> ""]
\* a JSON array, told apart from JSON null (None) by its key
JsonArray(items) == [array |-> items]

\* what get_task can return: a task in a list, a task without the "list"
\* key, with a list that has no id, an empty id, and with "list": null
TaskDatas ==
    { [id |-> "t1", list |-> [id |-> "L1"]],
      [id |-> "t1", list |-> [id |-> "L2"]],
      [id |-> "t1"],
      [id |-> "t1", list |-> [name |-> "Backlog"]],
      [id |-> "t1", list |-> [id |-> ""]],
      [id |-> "t1", list |-> None] }

\* what get_custom_fields can return
FieldsDatas ==
    { [fields |-> JsonArray(<<[id |-> "f1", name |-> "Priority"],
                              [id |-> "f2", name |-> "Effort"]>>)],
      [fields |-> JsonArray(<<[name |-> "Effort"],
                              [id |-> "f3", name |-> "Effort"]>>)],
      [fields |-> JsonArray(<<>>)],
      EmptyDict,
      [fields |-> None] }

\* the arguments of the calls of the model
CfArgs ==
    [task_id : {"t1"}, field_name : {"Effort", "Sprint"}, value : {"5", "8"}]

\* how a call of _make_request ends: it returns a decoded body or raises
CallResults(values) ==
    {Return(v) : v \in values}
    \cup {ClickUpAPIError(m, "", NoStatus, None) : m \in {MsgConnection, MsgExhausted}}
    \cup {ClickUpAPIError(MsgHttp, "boom", 404, [err |-> "boom"])}

\* an exception that is not a ClickUpAPIError leaves the method
PyError(name) ==
    [kind |-> "error", value |-> None, message |-> name,
     detail |-> "", status |-> NoStatus, response |-> None]

MsgNoListId == "Could not determine list ID for task"
MsgNoField  == "Custom field not found for task"

Request(method, endpoint, json) ==
    [method |-> method, endpoint |-> endpoint, json |-> json]

\* for field in fields: if field.get("name") == field_name:
\*     field_id = field.get("id"); break
FieldId(items, field_name) ==
    LET matching == {i \in 1 .. Len(items) :
                        DictGet(items[i], "name", NoValue) = field_name}
    IN  IF matching = {} THEN NoValue
        ELSE LET first == CHOOSE i \in matching : \A j \in matching : i <= j
             IN  DictGet(items[first], "id", NoValue)

CfEnds(o) == cf_pc' = "done" /\ cf_outcome' = o

\* what a call of set_custom_field_value leaves as it is: the client's
\* fields, the other callers, the API application
cf_rest == <<max_retries, retry_delay, pc, retry_count, error_data, results,
             sleeps, jitter, outcome, calls, headers, th, t_count, tasks, hpc,
             cur, nodes, hresult, api>>

\* set_custom_field_value(task_id, field_name, value) is called
SetCustomFieldValue ==
    /\ cf_pc = "idle"
    /\ cf_args' \in CfArgs
    /\ cf_pc' = "get_task"
    /\ UNCHANGED <<cf_requests, cf_task_data, cf_fields_data, cf_outcome>>
    /\ UNCHANGED cf_rest

\* task_data = self.get_task(task_id); list_id = ...; if not list_id: raise
GetTask ==
    /\ cf_pc = "get_task"
    /\ cf_requests' = Append(cf_requests,
                             Request("GET", <<"task", cf_args.task_id>>, NoValue))
    /\ \E r \in CallResults(TaskDatas) :
          IF r.kind # "return"
          THEN CfEnds(r) /\ UNCHANGED cf_task_data
          ELSE /\ cf_task_data' = r.value
               /\ LET list == DictGet(r.value, "list", EmptyDict) IN
                  IF list = None
                  THEN CfEnds(PyError("AttributeError"))
                  ELSE IF Falsy(DictGet(list, "id", NoValue))
                  THEN CfEnds(ClickUpAPIError(MsgNoListId, "", NoStatus, None))
                  ELSE cf_pc' = "get_custom_fields" /\ UNCHANGED cf_outcome
    /\ UNCHANGED <<cf_args, cf_fields_data>>
    /\ UNCHANGED cf_rest

\* fields_data = self.get_custom_fields(list_id); the search for the field
GetCustomFields ==
    /\ cf_pc = "get_custom_fields"
    /\ cf_requests' = Append(cf_requests,
                             Request("GET", <<"list", cf_task_data.list.id, "field">>, NoValue))
    /\ \E r \in CallResults(FieldsDatas) :
          IF r.kind # "return"
          THEN CfEnds(r) /\ UNCHANGED cf_fields_data
          ELSE /\ cf_fields_data' = r.value
               /\ LET fields == DictGet(r.value, "fields", JsonArray(<<>>)) IN
                  IF fields = None
                  THEN CfEnds(PyError("TypeError"))
                  ELSE IF Falsy(FieldId(fields.array, cf_args.field_name))
                  THEN CfEnds(ClickUpAPIError(MsgNoField, "", NoStatus, None))
                  ELSE cf_pc' = "update" /\ UNCHANGED cf_outcome
    /\ UNCHANGED <<cf_args, cf_task_data>>
    /\ UNCHANGED cf_rest

\* return self.update_custom_field_value(task_id, field_id, value)
UpdateCustomFieldValue ==
    /\ cf_pc = "update"
    /\ cf_requests' =
          Append(cf_requests,
                 Request("POST",
                         <<"task", cf_args.task_id, "field",
                           FieldId(cf_fields_data.fields.array, cf_args.field_name)>>,
                         cf_args.value))
    /\ \E r \in CallResults({[id |-> "t1"], EmptyDict}) : CfEnds(r)
    /\ UNCHANGED <<cf_args, cf_task_data, cf_fields_data>>
    /\ UNCHANGED cf_rest

NextField ==
    \/ SetCustomFieldValue
    \/ GetTask
    \/ GetCustomFields
    \/ UpdateCustomFieldValue

InitField == Init /\ max_retries = 0 /\ retry_delay = DefaultRetryDelay

SpecField == InitField /\ [][NextField]_vars

\* the call has issued its update request
CfUpdated == \E i \in 1 .. Len(cf_requests) : cf_requests[i].method = "POST"
CfTaskReturned == cf_task_data # Unbound
CfFieldsReturned == cf_fields_data # Unbound
\* the task that get_task returned names the id of its list
CfHasListId ==
    /\ "list" \in DOMAIN cf_task_data
    /\ cf_task_data.list # None
    /\ "id" \in DOMAIN cf_task_data.list
    /\ cf_task_data.list.id # ""
\* the list of fields holds a field of the name asked for
CfHasField ==
    /\ "fields" \in DOMAIN cf_fields_data
    /\ cf_fields_data.fields # None
    /\ \E i \in 1 .. Len(cf_fields_data.fields.array) :
          DictGet(cf_fields_data.fields.array[i], "name", NoValue) = cf_args.field_name

(* ---------- C22 ---------- *)

\* C22: the update request is issued only after get_task and
\* get_custom_fields both returned and a field of the given name was found;
\* a call that ended after a task without a list id, or after a list of
\* fields without a field of that name, raised ClickUpAPIError and issued
\* no update request.
C22_UpdateOnlyAfterLookups ==
    /\ CfUpdated => (CfTaskReturned /\ CfFieldsReturned /\ CfHasField)
    /\ (cf_pc = "done" /\
          \/ (CfTaskReturned /\ ~CfHasListId)
          \/ (CfFieldsReturned /\ ~CfHasField))
         => (cf_outcome.kind = "raise" /\ ~CfUpdated)

(* ---------- C23 ---------- *)

ExchangePath == <<"auth", "exchange-token">>
\* entry i of the log is an exchange for oauth_token ot
IsExchange(i, ot) ==
    /\ api_log[i].method = "POST"
    /\ api_log[i].path = ExchangePath
    /\ api_log[i].oauth_token = ot
\* entry i of the log is a callback that stored a verifier for ot
StoredFor(i, ot) ==
    /\ api_log[i].path = <<"auth", "callback">>
    /\ api_log[i].oauth_token = ot
    /\ api_log[i].response.status = 200

\* C23: once an exchange has run for an oauth_token that had a stored
\* verifier, with either result, the verifier is gone from the storage until
\* a later callback stores one, and a later exchange for that oauth_token
\* with no such callback in between is answered 404.
C23_VerifierConsumedOnce ==
    \A ot \in OAuthTokens : \A i \in 1 .. Len(api_log) :
        (IsExchange(i, ot) /\ api_log[i].response.status # 404) =>
            /\ (~ \E k \in (i + 1) .. Len(api_log) : StoredFor(k, ot))
                  => ot \notin DOMAIN temp_oauth_storage
            /\ \A j \in (i + 1) .. Len(api_log) :
                  (IsExchange(j, ot) /\
                   ~ \E k \in (i + 1) .. (j - 1) : StoredFor(k, ot))
                     => api_log[j].response.status = 404
C23_Witness ==
    /\ Len(api_log) = 3
    /\ StoredFor(1, "ot1")
    /\ IsExchange(2, "ot1") /\ api_log[2].response.status = 500
    /\ IsExchange(3, "ot1") /\ api_log[3].response.status = 404

(* ---------- C24 ---------- *)

\* this step answered an exchange for oauth_token ot
ExchangeStep(ot) ==
    /\ Len(api_log') = Len(api_log) + 1
    /\ api_log'[Len(api_log')].method = "POST"
    /\ api_log'[Len(api_log')].path = ExchangePath
    /\ api_log'[Len(api_log')].oauth_token = ot

\* C24: an exchange for an oauth_token without a stored verifier is answered
\* 404, makes no call to Evernote and leaves the keyring and the verifier
\* storage as they were.
C24_ExchangeWithoutVerifier ==
    [][\A ot \in OAuthTokens :
          (ExchangeStep(ot) /\ ot \notin DOMAIN temp_oauth_storage) =>
              /\ api_log'[Len(api_log')].response.status = 404
              /\ UNCHANGED <<evernote_calls, keyring_token, temp_oauth_storage>>]_vars
C24_Witness ==
    /\ Len(api_log) = 2
    /\ StoredFor(1, "ot1")
    /\ IsExchange(2, "ot2") /\ api_log[2].response.status = 404
    /\ evernote_calls = <<>>
    /\ DOMAIN temp_oauth_storage = {"ot1"}

(* ---------- C25 ---------- *)

ProtectedPaths ==
    { <<"notebooks">>, <<"notes", "fetch-metadata">>, <<"notes", "g1", "content">>,
      <<"attachments", "r1", "data">>, <<"notes", "convert">>, ExportPath }
\* this step answered a request to a protected endpoint
ProtectedStep ==
    /\ Len(api_log') = Len(api_log) + 1
    /\ api_log'[Len(api_log')].path \in ProtectedPaths
\* this step answered an exchange with 200
ExchangeSucceeded ==
    /\ Len(api_log') = Len(api_log) + 1
    /\ api_log'[Len(api_log')].path = ExchangePath
    /\ api_log'[Len(api_log')].response.status = 200

\* C25: while the keyring holds no access token, which is so from a logout
\* that removed it until an exchange succeeds, no file is written, no export
\* starts, and every request to a protected endpoint is answered 401 without
\* a call to Evernote.
C25_ProtectedNeedsToken ==
    [][(keyring_token = None) =>
          /\ files' = files
          /\ export_pc' = "idle"
          /\ ProtectedStep =>
                /\ api_log'[Len(api_log')].response.status = 401
                /\ evernote_calls' = evernote_calls
          /\ keyring_token' # None => ExchangeSucceeded]_vars
C25_Witness ==
    /\ Len(api_log) = 3
    /\ api_log[1].path = <<"auth", "status">>
    /\ api_log[1].response.body = [authenticated |-> TRUE]
    /\ api_log[2].path = <<"auth", "logout">>
    /\ api_log[3].path = ExportPath
    /\ api_log[3].response.status = 401
    /\ keyring_token = None
    /\ evernote_calls = <<>>
    /\ files = NoFiles

(* ---------- C26 ---------- *)

\* this step is one pass of the export loop, for the note with title stem
NoteStep == export_pc = "notes" /\ export_notes # <<>> /\ export_notes' = Tail(export_notes)
\* the fallback numbers (0: the plain name) whose file does not exist
FreeNames(stem) ==
    {k \in 0 .. CollisionLimit :
        FileName(stem, k, FileExtension(export_format)) \notin DOMAIN files}
Written == DOMAIN files' \ DOMAIN files

\* C26: no step changes or removes a file that exists; the export of a note
\* with content writes one new file, under the plain name or else the first
\* of the names _1 .. _100 that does not exist, and counts it; when all
\* these names exist it writes nothing and counts nothing.
C26_ExportNeverOverwrites ==
    [][/\ \A f \in DOMAIN files : f \in DOMAIN files' /\ files'[f] = files[f]
       /\ notes_exported_count' # notes_exported_count =>
             (NoteStep \/ export_pc # export_pc')
       /\ NoteStep =>
             LET stem == Head(export_notes).title
                 free == FreeNames(stem)
             IN  IF Head(export_notes).got = "content" /\ free # {}
                 THEN /\ Written =
                            {FileName(stem,
                                      CHOOSE k \in free : \A j \in free : k <= j,
                                      FileExtension(export_format))}
                      /\ notes_exported_count' = notes_exported_count + 1
                 ELSE /\ Written = {}
                      /\ notes_exported_count' = notes_exported_count]_vars
\* a full directory was met and skipped, a gap was filled
C26_Witness ==
    /\ Len(api_log) = 1
    /\ api_log[1].response.body = [notes_processed |-> 1]
    /\ DOMAIN files = {FileName("a", k, ".md") : k \in 0 .. CollisionLimit}
                         \cup {"a_1_1.md"}
    /\ files["a_1_1.md"] = [note |-> "a_1", n |-> 1]

(* ---------- C27 ---------- *)

\* C27: a call that has ended and issued requests slept at most once
\* between two requests: its sleeps are at most its requests minus one.
C27_NoSleepAfterLastRequest ==
    (Done /\ Len(results) >= 1) => Len(sleeps) <= Len(results) - 1

(* ---------- C28 ---------- *)

\* C28: a call whose last response was a 429 received while retry budget
\* remained did not end with the "Unexpected error" failure, whatever the
\* Retry-After header of that response held.
C28_RateLimitWhateverTheHeader ==
    (Done /\ Len(results) >= 1 /\ Is429(Last(results)) /\ retry_count <= max_retries)
        => outcome.message # MsgUnexpected

====
